---- MODULE Spec2Model ----
(***************************************************************************)
(* Model of the fix engine (lib/fixer.js) and of the part of the rule      *)
(* engine (lib/ruleEngine.js) that produces the findings it consumes.      *)
(* File contents are sequences of one-character strings; rule patterns are *)
(* literal texts, matched and substituted the way RegExp.exec and          *)
(* String.replace with the g flag do it.                                   *)
(***************************************************************************)
EXTENDS Integers, Sequences, FiniteSets, TLC

VARIABLES
  files,       \* path -> content on disk
  mode,        \* path -> permission bits of the file
  backupDir,   \* state of the backup directory
  artifacts,   \* backup artifact name -> [content, mode]
  registry,    \* Fixer.backupRegistry : path -> artifact name
  fixedFiles,  \* Fixer.fixedFiles
  options,     \* Fixer.options (dryRun, createTimestampedBackups)
  rules,       \* RuleEngine.rules, in load order
  findings,    \* findings of the last analyzeFiles pass
  now,         \* the clock, in milliseconds
  steps,       \* number of Fixer calls and permission changes so far
  pre,         \* files and modes at the start of the last applyFixes
  result,      \* what the last call returned or threw
  compiledRules, \* RuleEngine.compiledRules : rule id -> the RegExp (source, lastIndex)
  handler,     \* the ErrorHandler: errorCounts and what it wrote to the console
  race,        \* the promise, the timer and the operation of a withTimeout call
  calls        \* the applyRules calls under way: file -> rule reached, findings so far

vars == <<files, mode, backupDir, artifacts, registry, fixedFiles, options,
          rules, findings, now, steps, pre, result, compiledRules, handler, race,
          calls>>

\* What only the Fixer and the file system change.
fixerVars == <<mode, backupDir, artifacts, registry, fixedFiles, options, now, pre>>

\* What only the rule engine, the error handler and withTimeout change.
engineVars == <<compiledRules, handler, race, calls>>

----------------------------------------------------------------------------
(* Bounds *)

MaxSteps == 3    \* Fixer calls and outside changes in one session
MaxClock == 2    \* last clock value
MaxErrors == 5   \* errors classified in one error handler session

\* The cap of applyRuleWithTimeout on the matches of one rule in one file. The
\* code has 10000; the model scales it down so that files reach it.
maxIterations == 2

----------------------------------------------------------------------------
(* Inputs *)

\* The contents src/a.js starts with: no match, one match, two matches of one
\* rule, matches of two rules on one line and on two lines.
Contents == {<<>>, <<"b">>, <<"a", "a">>, <<"a", "b">>, <<"b", "\n", "a">>}

\* The content lib/a.js starts with.
OtherContents == {<<"b">>}

P1 == [dir |-> "src", base |-> "a.js", ext |-> "js"]
P2 == [dir |-> "lib", base |-> "a.js", ext |-> "js"]

FileList == <<P1, P2>>

Paths == {FileList[i] : i \in 1..Len(FileList)}

Modes == {"0644", "0444", "0000"}

None == [null |-> TRUE, text |-> <<>>]

Str(s) == [null |-> FALSE, text |-> s]

Rule(id, pattern, replacement) ==
  [id |-> id, name |-> id, description |-> "d", pattern |-> pattern,
   replacement |-> replacement, fileTypes |-> {"js"}, severity |-> "warning"]

RuleSets ==
  { <<Rule("a-to-b", <<"a">>, Str(<<"b">>)), Rule("b-to-a", <<"b">>, Str(<<"a">>))>>,
    <<Rule("a-to-ab", <<"a">>, Str(<<"a", "b">>)), Rule("b-detect", <<"b">>, None)>> }

NoStamp == 0

\* No withTimeout call is under way.
NoRace == [phase |-> "idle"]

\* No applyRules call is under way.
NoCalls == [p \in {} |-> 0]

EmptyMap == [x \in {} |-> 0]

Put(f, k, v) == [x \in DOMAIN f \cup {k} |-> IF x = k THEN v ELSE f[x]]

----------------------------------------------------------------------------
(* Pattern matching *)

\* The pattern ^ (with the flag m): a zero-width match at the start of a line.
LineStart == <<"^">>

\* Length of the match of pattern at position i (1-based) of content, -1 if
\* there is none; a pattern other than ^ is a literal.
MatchLen(pattern, content, i) ==
  IF pattern = LineStart
  THEN IF i <= Len(content) + 1 /\ (i = 1 \/ content[i - 1] = "\n") THEN 0 ELSE -1
  ELSE IF /\ i + Len(pattern) - 1 <= Len(content)
          /\ SubSeq(content, i, i + Len(pattern) - 1) = pattern
  THEN Len(pattern)
  ELSE -1

\* Position of the leftmost match at or after i, 0 if there is none.
FirstMatchFrom(pattern, content, i) ==
  LET hits == {j \in i..(Len(content) + 1) : MatchLen(pattern, content, j) >= 0}
  IN IF hits = {} THEN 0 ELSE CHOOSE j \in hits : \A k \in hits : j <= k

\* content.replace(new RegExp(pattern, 'g'), replacement), from cursor i on.
RECURSIVE ReplaceFrom(_, _, _, _)
ReplaceFrom(content, pattern, repl, i) ==
  LET j == FirstMatchFrom(pattern, content, i)
  IN IF j = 0 THEN SubSeq(content, i, Len(content))
     ELSE LET n == MatchLen(pattern, content, j)
          IN IF n > 0
             THEN SubSeq(content, i, j - 1) \o repl \o ReplaceFrom(content, pattern, repl, j + n)
             ELSE IF j > Len(content)
                  THEN SubSeq(content, i, j - 1) \o repl
                  ELSE SubSeq(content, i, j - 1) \o repl \o <<content[j]>>
                         \o ReplaceFrom(content, pattern, repl, j + 1)

ReplaceAll(content, pattern, repl) == ReplaceFrom(content, pattern, repl, 1)

\* content.replace(text, replacement) with a string: the first occurrence only.
ReplaceFirst(content, text, repl) ==
  LET j == FirstMatchFrom(text, content, 1)
  IN IF j = 0 THEN content
     ELSE SubSeq(content, 1, j - 1) \o repl \o SubSeq(content, j + Len(text), Len(content))

----------------------------------------------------------------------------
(* Error handler *)

ErrorTypes == {"permission", "encoding", "timeout", "regex", "filesystem", "unknown"}

\* ErrorHandler after construction; present tells whether the rule engine was
\* given one. console lists what was written with console.warn and console.error.
NewHandler(present) ==
  [present |-> present, errorCounts |-> [t \in ErrorTypes |-> 0], console |-> <<>>]

\* What a handle... method returns.
Classified(type, recoverable, skipFile, skipRule, critical) ==
  [type |-> type, recoverable |-> recoverable, skipFile |-> skipFile,
   skipRule |-> skipRule, critical |-> critical]

Count(h, type) == [h EXCEPT !.errorCounts[type] = @ + 1]

Emit(h, message) == [h EXCEPT !.console = Append(@, message)]

\* Variant of handlePermissionError that keeps warning after the third error.
handlePermissionError_noisy(h) ==
  [h |-> Emit(Count(h, "permission"), "permission-warning"),
   result |-> Classified("permission", TRUE, TRUE, FALSE, FALSE)]

handlePermissionError(h) ==
  LET n == h.errorCounts["permission"] + 1
      counted == Count(h, "permission")
  IN [h |-> IF n <= 3 THEN Emit(counted, "permission-warning")
            ELSE IF n = 4 THEN Emit(counted, "permission-suppressed")
            ELSE counted,
      result |-> Classified("permission", TRUE, TRUE, FALSE, FALSE)]

handleEncodingError(h) ==
  LET counted == Count(h, "encoding")
  IN [h |-> IF counted.errorCounts["encoding"] <= 5 THEN Emit(counted, "encoding-warning")
            ELSE counted,
      result |-> Classified("encoding", TRUE, TRUE, FALSE, FALSE)]

handleRegexTimeoutError(h) ==
  [h |-> Emit(Count(h, "timeout"), "timeout-warning"),
   result |-> Classified("timeout", TRUE, FALSE, TRUE, FALSE)]

handleInvalidRegexError(h) ==
  [h |-> Emit(Count(h, "regex"), "regex-error"),
   result |-> Classified("regex", FALSE, FALSE, TRUE, FALSE)]

handleUnknownError(h) ==
  [h |-> Emit(Count(h, "unknown"), "unknown-error"),
   result |-> Classified("unknown", FALSE, FALSE, FALSE, TRUE)]

\* The error codes getFilesystemErrorSuggestion knows.
FsCodes == {"ENOENT", "EACCES", "ENOTDIR", "EISDIR", "ENOSPC", "EMFILE", "EBUSY", "EROFS"}

isFilesystemErrorRecoverable(code) == code \in {"ENOENT", "EACCES", "ENOTDIR", "EISDIR"}

handleFilesystemError(h, code) ==
  [h |-> Emit(Count(h, "filesystem"),
              IF isFilesystemErrorRecoverable(code) THEN "filesystem-warning"
              ELSE "filesystem-error"),
   result |-> Classified("filesystem", isFilesystemErrorRecoverable(code), FALSE, FALSE, FALSE)]

----------------------------------------------------------------------------
(* Rule engine: scanning *)

CountNewlines(s) == Cardinality({k \in 1..Len(s) : s[k] = "\n"})

\* Variant of LastNewline that takes the first newline of s.
LastNewline_first(s) ==
  LET nl == {k \in 1..Len(s) : s[k] = "\n"}
  IN IF nl = {} THEN 0 ELSE CHOOSE k \in nl : \A m \in nl : k <= m

LastNewline(s) ==
  LET nl == {k \in 1..Len(s) : s[k] = "\n"}
  IN IF nl = {} THEN 0 ELSE CHOOSE k \in nl : \A m \in nl : m <= k

Finding(rule, path, content, j, n) ==
  LET beforeMatch == SubSeq(content, 1, j - 1)
  IN [ruleId |-> rule.id,
      filePath |-> path,
      lineNumber |-> CountNewlines(beforeMatch) + 1,
      columnNumber |-> Len(beforeMatch) - (LastNewline(beforeMatch) - 1),
      matchedText |-> SubSeq(content, j, j + n - 1),
      severity |-> rule.severity,
      fixable |-> ~rule.replacement.null,
      replacement |-> rule.replacement,
      pattern |-> rule.pattern]

\* The exec loop of applyRuleWithTimeout: the matches are those of source, the
\* pattern the RegExp was compiled from; the cursor lastIndex is 1-based here,
\* the lastIndex of the result is the one the compiled pattern is left with
\* (0-based: 0 after exec returned null, the end of the last match after the
\* loop was left by the cap).
RECURSIVE ExecLoop(_, _, _, _, _, _)
ExecLoop(source, rule, path, content, lastIndex, acc) ==
  LET j == IF lastIndex > Len(content) + 1 THEN 0
           ELSE FirstMatchFrom(source, content, lastIndex)
  IN IF j = 0 THEN [ok |-> TRUE, findings |-> acc, lastIndex |-> 0, error |-> "none"]
     ELSE IF Len(acc) + 1 > maxIterations
     THEN [ok |-> FALSE, findings |-> <<>>,
           lastIndex |-> j + MatchLen(source, content, j) - 1,
           error |-> "Too many regex matches"]
     ELSE LET n == MatchLen(source, content, j)
          IN ExecLoop(source, rule, path, content, IF n = 0 THEN j + 1 ELSE j + n,
                      Append(acc, Finding(rule, path, content, j, n)))

\* applyRuleWithTimeout on the compiled pattern the map holds for the id of the
\* rule. With an error handler the loop runs inside withTimeout; the loop is synchronous,
\* so it has settled before the timer can fire and the outcome is the loop's.
applyRuleWithTimeout(compiledPattern, content, rule, path) ==
  ExecLoop(compiledPattern.source, rule, path, content, compiledPattern.lastIndex + 1, <<>>)

\* new RegExp(pattern, 'gm')
RegExp(pattern) == [source |-> pattern, lastIndex |-> 0]

\* A RuleEngine: the rules in load order, the compiled patterns (rule id ->
\* RegExp) and the error handler it was given.
Engine(rs, compiled, h) == [rules |-> rs, compiledRules |-> compiled, handler |-> h]

\* The engine after loadRules loaded rs, all of whose patterns compile, without
\* an error handler.
EngineOf(rs) ==
  Engine(rs,
         [id \in {rs[i].id : i \in 1..Len(rs)} |->
            RegExp(rs[CHOOSE i \in 1..Len(rs) :
                        /\ rs[i].id = id
                        /\ \A m \in 1..Len(rs) : rs[m].id = id => m <= i].pattern)],
         NewHandler(FALSE))

\* Variant of resetLastIndex that leaves the pattern where the last scan left it.
resetLastIndex_none(compiled, id) == compiled

\* compiledPattern.lastIndex = 0
resetLastIndex(compiled, id) == [compiled EXCEPT ![id].lastIndex = 0]

\* Variant of collect that puts the findings of a rule before the earlier ones.
collect_front(found, ruleFindings) == ruleFindings \o found

\* findings.push(...ruleFindings)
collect(found, ruleFindings) == found \o ruleFindings

\* The results of a handle... call h added to the scan state st.
classified(st, h) ==
  [st EXCEPT !.e.handler = h.h, !.handled = Append(@, h.result)]

\* The catch of applyRules: the error of r is classified when there is a handler.
catchRule(st, r) ==
  IF ~st.e.handler.present THEN st
  ELSE IF r.error = "timed out"
  THEN classified(st, handleRegexTimeoutError(st.e.handler))
  ELSE classified(st, handleUnknownError(st.e.handler))

\* The try of applyRules after applyRuleWithTimeout returned or threw r; the
\* compiled pattern keeps the lastIndex the loop left. st holds the engine,
\* the findings and the classified errors so far.
afterRule(st, id, r) ==
  IF r.ok
  THEN [st EXCEPT !.e.compiledRules[id].lastIndex = r.lastIndex,
                  !.findings = collect(@, r.findings)]
  ELSE catchRule([st EXCEPT !.e.compiledRules[id].lastIndex = r.lastIndex], r)

\* The loop of applyRules from the k-th rule on.
RECURSIVE applyRulesFrom(_, _, _, _)
applyRulesFrom(st, k, path, content) ==
  IF k > Len(st.e.rules) THEN st
  ELSE IF \/ path.ext \notin st.e.rules[k].fileTypes
          \/ st.e.rules[k].id \notin DOMAIN st.e.compiledRules
  THEN applyRulesFrom(st, k + 1, path, content)
  ELSE applyRulesFrom(
         afterRule(st, st.e.rules[k].id,
                   applyRuleWithTimeout(
                     resetLastIndex(st.e.compiledRules, st.e.rules[k].id)[st.e.rules[k].id],
                     content, st.e.rules[k], path)),
         k + 1, path, content)

applyRules(e, path, content) ==
  applyRulesFrom([e |-> e, findings |-> <<>>, handled |-> <<>>], 1, path, content)

\* What reading a file gives: "ok", or the code the file system fails with.
ReadOutcomes == {"ok"} \cup FsCodes

\* In Fixer sessions a file without permission bits cannot be read.
ReadOutcomeOf(md) == [p \in DOMAIN md |-> IF md[p] = "0000" THEN "EACCES" ELSE "ok"]

\* The error handler after Scanner.readFile failed with code: validateFile
\* classifies a missing or unreadable file, a failing read goes through the
\* encoding fallback, and the catch of readFile, which sees an error without a
\* code, classifies it once more as unknown.
readFileFailed(h, code) ==
  IF ~h.present THEN h
  ELSE IF code = "EACCES" THEN handleUnknownError(handlePermissionError(h).h).h
  ELSE IF code = "ENOENT" THEN handleUnknownError(handleFilesystemError(h, "none").h).h
  ELSE handleUnknownError(handleEncodingError(h).h).h

\* The results acc of analyzeFiles after applyRules returned r for a file.
scanned(acc, r) ==
  [acc EXCEPT !.e = r.e,
              !.findings = @ \o r.findings,
              !.handled = @ \o r.handled,
              !.filesProcessed = @ + 1]

\* One iteration of the loop of analyzeFiles; acc holds the results so far.
analyzeFile(acc, p, content, outcome) ==
  IF outcome # "ok"
  THEN [acc EXCEPT !.e.handler = readFileFailed(@, outcome),
                   !.errors = Append(@, p)]
  ELSE scanned(acc, applyRules(acc.e, p, content))

\* analyzeFiles: every file of the list is read and scanned, in list order; a
\* file that cannot be read is recorded in errors and the loop goes on.
RECURSIVE analyzeFrom(_, _, _, _)
analyzeFrom(acc, k, fs, outcomes) ==
  IF k > Len(FileList) THEN acc
  ELSE analyzeFrom(analyzeFile(acc, FileList[k], fs[FileList[k]], outcomes[FileList[k]]),
                   k + 1, fs, outcomes)

analyzeFiles(e, fs, outcomes) ==
  analyzeFrom([e |-> e, findings |-> <<>>, handled |-> <<>>, filesProcessed |-> 0,
               errors |-> <<>>, thrown |-> FALSE],
              1, fs, outcomes)

----------------------------------------------------------------------------
(* Rule engine: loading *)

\* A replacement that is neither null nor a string (a number in rules.json).
NotAString == [null |-> FALSE, text |-> <<>>, number |-> TRUE]

IsString(replacement) == ~replacement.null /\ "number" \notin DOMAIN replacement

\* A rule as written in rules.json; an empty name stands for a missing field.
RawRule(id, name, pattern, severity, replacement) ==
  [Rule(id, pattern, replacement) EXCEPT !.name = name, !.severity = severity]

\* new RegExp(pattern, 'gm') throws for an unterminated group; the other
\* patterns of the model are literal text.
Compiles(pattern) == pattern # <<"(">>

\* validateRule: "ok", or what the error it throws is about.
validateRule(rule) ==
  IF \/ rule.id = "" \/ rule.name = "" \/ rule.description = ""
     \/ rule.pattern = <<>> \/ rule.severity = ""
  THEN "missing required field"
  ELSE IF rule.severity \notin {"error", "warning", "info"} THEN "severity"
  ELSE IF ~rule.replacement.null /\ ~IsString(rule.replacement) THEN "replacement"
  ELSE "ok"

\* The engine state st after the pattern of a validated, pushed rule failed to
\* compile: classified and skipped with a handler, thrown without.
compileFailed(st) ==
  IF st.e.handler.present
  THEN classified(st, handleInvalidRegexError(st.e.handler))
  ELSE [st EXCEPT !.thrown = TRUE]

\* this.rules.push(validatedRule)
pushRule(st, rule) == [st EXCEPT !.e.rules = Append(@, rule)]

\* One iteration of the loop of loadRules: validate, push, compile.
loadRule(st, rule) ==
  IF validateRule(rule) # "ok" THEN [st EXCEPT !.thrown = TRUE]
  ELSE IF Compiles(rule.pattern)
  THEN [pushRule(st, rule) EXCEPT !.e.compiledRules = Put(@, rule.id, RegExp(rule.pattern))]
  ELSE compileFailed(pushRule(st, rule))

\* The loop of loadRules over the rules of the document; it ends when an
\* iteration threw.
RECURSIVE loadFrom(_, _, _)
loadFrom(st, raw, k) ==
  IF k > Len(raw) \/ st.thrown THEN st
  ELSE loadFrom(loadRule(st, raw[k]), raw, k + 1)

\* loadRules on a rules file doc; e is the engine before the call.
loadRules(e, doc) ==
  IF ~doc.parses \/ ~doc.hasRules
  THEN [e |-> e, handled |-> <<>>, thrown |-> TRUE]
  ELSE loadFrom([e |-> Engine(<<>>, EmptyMap, e.handler), handled |-> <<>>, thrown |-> FALSE],
                doc.rules, 1)

getAllRules(e) == e.rules

getRulesForFileType(e, ext) == SelectSeq(e.rules, LAMBDA r : ext \in r.fileTypes)

----------------------------------------------------------------------------
(* Fix engine *)

\* The part of the world a Fixer call reads and writes, threaded through a call.
World == [files |-> files, mode |-> mode, backupDir |-> backupDir,
          artifacts |-> artifacts, registry |-> registry,
          fixedFiles |-> fixedFiles, now |-> now]

Tick(w, tick) == IF tick /\ w.now < MaxClock THEN [w EXCEPT !.now = w.now + 1] ELSE w

\* The name of the backup artifact; base names only, the directory is dropped.
backupName(p, t, timestamped) ==
  IF timestamped THEN <<p.base, t>> ELSE <<p.base, NoStamp>>

\* fs.copy(src, dest, {overwrite: false}): an existing destination is left alone.
copyNoOverwrite(arts, name, content, md) ==
  IF name \in DOMAIN arts THEN arts
  ELSE Put(arts, name, [content |-> content, mode |-> md])

createBackup(w, p, opt) ==
  LET name == backupName(p, w.now, opt.createTimestampedBackups)
      ensured == IF w.backupDir = "absent" THEN "writable" ELSE w.backupDir
  IN IF w.mode[p] = "0000"
     THEN [ok |-> FALSE, w |-> w, name |-> name]
     ELSE IF ensured = "readonly"
     THEN [ok |-> FALSE, w |-> [w EXCEPT !.backupDir = ensured], name |-> name]
     ELSE [ok |-> TRUE,
           w |-> [w EXCEPT !.backupDir = ensured,
                           !.artifacts = copyNoOverwrite(w.artifacts, name, w.files[p], w.mode[p]),
                           !.registry = Put(w.registry, p, name)],
           name |-> name]

applyPatternReplacement(content, finding) ==
  IF finding.pattern # <<>>
  THEN ReplaceAll(content, finding.pattern, finding.replacement.text)
  ELSE ReplaceFirst(content, finding.matchedText, finding.replacement.text)

\* b goes before a when the comparator of fixFile is positive for (a, b).
Compare(a, b) ==
  IF a.lineNumber # b.lineNumber THEN b.lineNumber - a.lineNumber
  ELSE b.columnNumber - a.columnNumber

\* findings.sort(comparator): a stable sort, by position descending.
RECURSIVE sortFindings(_)
sortFindings(fs) ==
  IF fs = <<>> THEN <<>>
  ELSE LET x == fs[Len(fs)]
           sorted == sortFindings(SubSeq(fs, 1, Len(fs) - 1))
           before == SelectSeq(sorted, LAMBDA e : Compare(e, x) <= 0)
           after == SelectSeq(sorted, LAMBDA e : Compare(e, x) > 0)
       IN before \o <<x>> \o after

\* Variant of applyEach that counts every finding, changing or not.
RECURSIVE applyEach_countAll(_, _, _, _)
applyEach_countAll(fs, k, content, count) ==
  IF k > Len(fs) THEN [content |-> content, patternsReplaced |-> count]
  ELSE applyEach_countAll(fs, k + 1, applyPatternReplacement(content, fs[k]), count + 1)

\* The loop of fixFile over the sorted findings: content and count of changing passes.
RECURSIVE applyEach(_, _, _, _)
applyEach(fs, k, content, count) ==
  IF k > Len(fs) THEN [content |-> content, patternsReplaced |-> count]
  ELSE LET modified == applyPatternReplacement(content, fs[k])
       IN applyEach(fs, k + 1, modified, IF modified # content THEN count + 1 ELSE count)

\* Variant of fixFile that writes in a dry run too.
fixFile_ignoreDryRun(w, p, fileFindings, opt) ==
  LET originalContent == w.files[p]
      r == applyEach(sortFindings(fileFindings), 1, originalContent, 0)
      mustWrite == r.content # originalContent
  IN IF w.mode[p] = "0000"
     THEN [ok |-> FALSE, w |-> w, patternsReplaced |-> 0, read |-> FALSE, wrote |-> FALSE]
     ELSE IF mustWrite /\ w.mode[p] # "0644"
     THEN [ok |-> FALSE, w |-> w, patternsReplaced |-> 0, read |-> TRUE, wrote |-> FALSE]
     ELSE [ok |-> TRUE,
           w |-> IF mustWrite THEN [w EXCEPT !.files[p] = r.content] ELSE w,
           patternsReplaced |-> r.patternsReplaced,
           read |-> TRUE, wrote |-> mustWrite]

fixFile(w, p, fileFindings, opt) ==
  LET originalContent == w.files[p]
      r == applyEach(sortFindings(fileFindings), 1, originalContent, 0)
      mustWrite == ~opt.dryRun /\ r.content # originalContent
  IN IF w.mode[p] = "0000"
     THEN [ok |-> FALSE, w |-> w, patternsReplaced |-> 0, read |-> FALSE, wrote |-> FALSE]
     ELSE IF mustWrite /\ w.mode[p] # "0644"
     THEN [ok |-> FALSE, w |-> w, patternsReplaced |-> 0, read |-> TRUE, wrote |-> FALSE]
     ELSE [ok |-> TRUE,
           w |-> IF mustWrite THEN [w EXCEPT !.files[p] = r.content] ELSE w,
           patternsReplaced |-> r.patternsReplaced,
           read |-> TRUE, wrote |-> mustWrite]

\* restoreFromBackup over a list of paths; res accumulates the returned counts.
RECURSIVE restoreLoop(_, _, _, _)
restoreLoop(w, paths, k, res) ==
  IF k > Len(paths) THEN [w |-> w, res |-> res]
  ELSE LET p == paths[k]
           found == p \in DOMAIN w.registry /\ w.registry[p] \in DOMAIN w.artifacts
           art == w.artifacts[w.registry[p]]
       IN IF found
          THEN restoreLoop([w EXCEPT !.files[p] = art.content,
                                     !.mode[p] = art.mode,
                                     !.fixedFiles = w.fixedFiles \ {p}],
                           paths, k + 1,
                           [res EXCEPT !.filesRestored = res.filesRestored + 1])
          ELSE restoreLoop(w, paths, k + 1,
                           [res EXCEPT !.errors = Append(res.errors, p)])

\* Variant of restoreFromBackup that gives up at the first path it cannot restore.
restoreFromBackup_untilError(w, paths) ==
  LET bad == {i \in 1..Len(paths) :
                ~(paths[i] \in DOMAIN w.registry /\ w.registry[paths[i]] \in DOMAIN w.artifacts)}
      n == IF bad = {} THEN Len(paths) ELSE CHOOSE i \in bad : \A j \in bad : i <= j
  IN restoreLoop(w, SubSeq(paths, 1, n), 1, [filesRestored |-> 0, errors |-> <<>>])

restoreFromBackup(w, paths) ==
  restoreLoop(w, paths, 1, [filesRestored |-> 0, errors |-> <<>>])

\* Array.from(backupRegistry.keys()); the keys are listed in file-list order.
registryKeys(reg) == SelectSeq(FileList, LAMBDA p : p \in DOMAIN reg)

\* Variant of rollbackChanges that forgets to clear the registry.
rollbackChanges_keepRegistry(w) ==
  LET r == restoreFromBackup(w, registryKeys(w.registry))
  IN [w |-> [r.w EXCEPT !.fixedFiles = {}], res |-> r.res]

rollbackChanges(w) ==
  LET r == restoreFromBackup(w, registryKeys(w.registry))
  IN [w |-> [r.w EXCEPT !.registry = EmptyMap, !.fixedFiles = {}], res |-> r.res]

\* The keys of groupFindingsByFile, in order of first appearance.
RECURSIVE fileOrder(_)
fileOrder(fs) ==
  IF fs = <<>> THEN <<>>
  ELSE LET init == fileOrder(SubSeq(fs, 1, Len(fs) - 1))
           p == fs[Len(fs)].filePath
       IN IF \E i \in 1..Len(init) : init[i] = p THEN init ELSE Append(init, p)

groupFindingsByFile(fs, p) == SelectSeq(fs, LAMBDA f : f.filePath = p)

NewResults ==
  [filesProcessed |-> 0, filesFixed |-> 0, patternsReplaced |-> 0,
   errors |-> <<>>, backupsCreated |-> <<>>, fixedFiles |-> <<>>,
   thrown |-> FALSE, backedUp |-> <<>>, reads |-> {}, writes |-> {}, rollback |-> <<>>]

\* The backup of the loop body, made when backupBeforeFix is set outside a dry
\* run; the clock advances before it when tick is set.
backupStep(w, p, opt, callOpt, tick) ==
  IF callOpt.backupBeforeFix /\ ~opt.dryRun
  THEN createBackup(Tick(w, tick), p, opt)
  ELSE [ok |-> TRUE, w |-> w, name |-> <<>>]

\* results.backupsCreated.push(backupPath), b the result of the backup.
recordBackup(res, b, p, opt, callOpt) ==
  IF callOpt.backupBeforeFix /\ ~opt.dryRun /\ b.ok
  THEN [res EXCEPT !.backupsCreated = Append(@, b.name), !.backedUp = Append(@, p)]
  ELSE res

\* The counting after fixFile returned f, or the catch of the body when it threw.
countFix(f, res, p) ==
  LET res3 == [res EXCEPT !.reads = IF f.read THEN @ \cup {p} ELSE @,
                          !.writes = IF f.wrote THEN @ \cup {p} ELSE @]
  IN IF ~f.ok
     THEN [w |-> f.w, res |-> [res3 EXCEPT !.errors = Append(@, p)], failed |-> TRUE]
     ELSE IF f.patternsReplaced > 0
     THEN [w |-> [f.w EXCEPT !.fixedFiles = @ \cup {p}],
           res |-> [res3 EXCEPT !.filesFixed = @ + 1,
                                !.patternsReplaced = @ + f.patternsReplaced,
                                !.fixedFiles = Append(@, p)],
           failed |-> FALSE]
     ELSE [w |-> f.w, res |-> res3, failed |-> FALSE]

\* The body after the backup b: a failed backup is caught, otherwise the file is fixed.
fixStep(b, res, p, fileFindings, opt, callOpt) ==
  IF ~b.ok
  THEN [w |-> b.w, res |-> [res EXCEPT !.errors = Append(@, p)], failed |-> TRUE]
  ELSE countFix(fixFile(b.w, p, fileFindings, opt), recordBackup(res, b, p, opt, callOpt), p)

\* One iteration of the loop of applyFixes: backup, fix, count; failed tells
\* whether the body threw.
processFile(w, res, p, fileFindings, opt, callOpt, tick) ==
  fixStep(backupStep(w, p, opt, callOpt, tick),
          [res EXCEPT !.filesProcessed = @ + 1], p, fileFindings, opt, callOpt)

\* Variant of mustAbort that rethrows whatever continueOnError says.
mustAbort_always(failed, callOpt) == failed

\* The catch of the loop body rethrows unless continueOnError is set.
mustAbort(failed, callOpt) == failed /\ ~callOpt.continueOnError

\* The outer catch of applyFixes, r the iteration that threw and rb the result
\* of rollbackChanges.
rolledBack(r, rb) ==
  [w |-> rb.w, res |-> [r.res EXCEPT !.thrown = TRUE, !.rollback = <<rb.res>>]]

\* The outer catch: roll back when a backup was made in this call, then rethrow.
catchAll(r) ==
  IF Len(r.res.backupsCreated) > 0
  THEN rolledBack(r, rollbackChanges(r.w))
  ELSE [w |-> r.w, res |-> [r.res EXCEPT !.thrown = TRUE]]

\* After the iteration r: rethrow to the outer catch, or go on with the next file.
afterFile(r, callOpt) ==
  IF mustAbort(r.failed, callOpt) THEN catchAll(r) ELSE [w |-> r.w, res |-> r.res]

\* The loop of applyFixes over the files of order, from the k-th on; st is the
\* world and the results so far, and the loop ends when the call has thrown.
RECURSIVE fixLoop(_, _, _, _, _, _, _)
fixLoop(st, order, k, fixable, opt, callOpt, ticks) ==
  IF k > Len(order) \/ st.res.thrown THEN st
  ELSE fixLoop(afterFile(processFile(st.w, st.res, order[k],
                                     groupFindingsByFile(fixable, order[k]),
                                     opt, callOpt, order[k] \in ticks),
                         callOpt),
               order, k + 1, fixable, opt, callOpt, ticks)

\* What the caller of applyFixes gets: the results object when the call
\* returns; when it throws, the error of the file the loop failed at, thrown
\* again by the outer catch after rollbackChanges, whose result is dropped.
received(res) ==
  IF res.thrown
  THEN [thrown |-> TRUE,
        error |-> [message |-> "Fix operation failed", filePath |-> res.errors[Len(res.errors)]]]
  ELSE [thrown |-> FALSE,
        results |-> [filesProcessed |-> res.filesProcessed, filesFixed |-> res.filesFixed,
                     patternsReplaced |-> res.patternsReplaced, errors |-> res.errors,
                     backupsCreated |-> res.backupsCreated, fixedFiles |-> res.fixedFiles]]

fixableOf(fs) == SelectSeq(fs, LAMBDA f : f.fixable /\ ~f.replacement.null)

\* Variant of applyFixes that does not filter the findings.
applyFixes_unfiltered(w, fs, opt, callOpt, ticks) ==
  IF Len(fs) = 0 THEN [w |-> w, res |-> NewResults]
  ELSE fixLoop([w |-> w, res |-> NewResults], fileOrder(fs), 1, fs, opt, callOpt, ticks)

applyFixes(w, fs, opt, callOpt, ticks) ==
  IF Len(fixableOf(fs)) = 0 THEN [w |-> w, res |-> NewResults]
  ELSE fixLoop([w |-> w, res |-> NewResults], fileOrder(fixableOf(fs)), 1, fixableOf(fs),
               opt, callOpt, ticks)

----------------------------------------------------------------------------
(* The session: one RuleEngine, one Fixer, the files and the backup directory *)

CallOptions == [backupBeforeFix : BOOLEAN, continueOnError : BOOLEAN]

Init ==
  /\ files \in {f \in [Paths -> Contents] : f[P2] \in OtherContents}
  /\ mode = [p \in Paths |-> "0644"]
  /\ backupDir \in {"absent", "readonly"}
  /\ artifacts = EmptyMap
  /\ registry = EmptyMap
  /\ fixedFiles = {}
  /\ options \in [dryRun : BOOLEAN, createTimestampedBackups : BOOLEAN]
  /\ rules \in RuleSets
  /\ findings = <<>>
  /\ now = 1
  /\ steps = 0
  /\ pre = [files |-> files, mode |-> mode, fresh |-> TRUE]
  /\ result = [op |-> "none"]
  /\ compiledRules = EngineOf(rules).compiledRules
  /\ handler = NewHandler(FALSE)
  /\ race = NoRace
  /\ calls = NoCalls

SetWorld(w) ==
  /\ files' = w.files
  /\ mode' = w.mode
  /\ backupDir' = w.backupDir
  /\ artifacts' = w.artifacts
  /\ registry' = w.registry
  /\ fixedFiles' = w.fixedFiles
  /\ now' = w.now

Step ==
  /\ steps < MaxSteps
  /\ steps' = steps + 1

\* CodeMigrationCLI.analyzeFiles: scan every file with the loaded rules.
Scan ==
  /\ findings' = analyzeFiles(EngineOf(rules), files, ReadOutcomeOf(mode)).findings
  /\ UNCHANGED <<files, mode, backupDir, artifacts, registry, fixedFiles, options,
                 rules, now, steps, pre, result>>
  /\ UNCHANGED engineVars

\* The clock is read by createBackup only: no choice where no backup is made
\* or the clock is at its last value.
TickChoices(callOpt) ==
  IF callOpt.backupBeforeFix /\ ~options.dryRun /\ now < MaxClock
  THEN SUBSET Paths
  ELSE {{}}

\* Fixer.applyFixes(findings, callOpt); the clock advances before the backups
\* of the files in ticks.
ApplyFixes(callOpt, ticks) ==
  /\ Step
  /\ LET r == applyFixes(World, findings, options, callOpt, ticks)
     IN /\ SetWorld(r.w)
        /\ result' = [op |-> "applyFixes", callOpt |-> callOpt, res |-> r.res,
                      nGiven |-> Len(findings), nFixable |-> Len(fixableOf(findings))]
  /\ pre' = [files |-> files, mode |-> mode,
             fresh |-> registry = EmptyMap /\ fixedFiles = {}]
  /\ UNCHANGED <<options, rules, findings>>
  /\ UNCHANGED engineVars

\* Fixer.createBackup(p), called directly.
CreateBackup(p, tick) ==
  /\ Step
  /\ tick => now < MaxClock
  /\ LET r == createBackup(Tick(World, tick), p, options)
     IN /\ SetWorld(r.w)
        /\ result' = [op |-> "createBackup", path |-> p, ok |-> r.ok, name |-> r.name]
  /\ UNCHANGED <<options, rules, findings, pre>>
  /\ UNCHANGED engineVars

\* Fixer.rollbackChanges().
RollbackChanges ==
  /\ Step
  /\ LET r == rollbackChanges(World)
     IN /\ SetWorld(r.w)
        /\ result' = [op |-> "rollbackChanges", res |-> r.res]
  /\ UNCHANGED <<options, rules, findings, pre>>
  /\ UNCHANGED engineVars

\* The lists of paths restoreFromBackup is called with: one path, or two with
\* repetition.
PathLists == {<<p>> : p \in Paths} \cup {<<p, q>> : p \in Paths, q \in Paths}

\* Fixer.restoreFromBackup(paths), called directly.
RestoreFromBackup(paths) ==
  /\ Step
  /\ LET r == restoreFromBackup(World, paths)
     IN /\ SetWorld(r.w)
        /\ result' = [op |-> "restoreFromBackup", paths |-> paths, res |-> r.res]
  /\ UNCHANGED <<options, rules, findings, pre>>
  /\ UNCHANGED engineVars

\* Fixer.cleanupOldBackups(): the artifacts in old are those whose mtime is
\* older than maxBackupAge.
CleanupOldBackups(old) ==
  /\ Step
  /\ old # {}
  /\ artifacts' = [n \in DOMAIN artifacts \ old |-> artifacts[n]]
  /\ result' = [op |-> "cleanupOldBackups", filesDeleted |-> Cardinality(old)]
  /\ UNCHANGED <<files, mode, backupDir, registry, fixedFiles, options, rules,
                 findings, now, pre>>
  /\ UNCHANGED engineVars

\* The permission bits of a file are changed from outside (fs.chmod in the
\* tests), before the Fixer is first called.
Chmod(p, m) ==
  /\ Step
  /\ result.op = "none"
  /\ \A q \in Paths : mode[q] = "0644"
  /\ m # "0644"
  /\ mode' = [mode EXCEPT ![p] = m]
  /\ UNCHANGED <<files, backupDir, artifacts, registry, fixedFiles, options, rules,
                 findings, now, pre, result>>
  /\ UNCHANGED engineVars

Next ==
  \/ Scan
  \/ \E callOpt \in CallOptions : \E ticks \in TickChoices(callOpt) :
        ApplyFixes(callOpt, ticks)
  \/ \E p \in Paths, tick \in BOOLEAN : CreateBackup(p, tick)
  \/ RollbackChanges
  \/ \E old \in SUBSET DOMAIN artifacts : CleanupOldBackups(old)
  \/ \E p \in Paths, m \in Modes : Chmod(p, m)

Spec == Init /\ [][Next]_vars

\* Sessions in which the caller restores chosen paths itself after fixing.
NextRestore ==
  \/ Scan
  \/ \E callOpt \in CallOptions : \E ticks \in TickChoices(callOpt) :
        ApplyFixes(callOpt, ticks)
  \/ \E old \in SUBSET DOMAIN artifacts : CleanupOldBackups(old)
  \/ \E paths \in PathLists : RestoreFromBackup(paths)

SpecRestore == Init /\ [][NextRestore]_vars

\* Sessions over a file that is read-only from the start: lib/a.js can be
\* read and backed up but not written.
InitReadOnly ==
  /\ files \in {f \in [Paths -> Contents] : f[P2] \in OtherContents}
  /\ mode = [p \in Paths |-> IF p = P2 THEN "0444" ELSE "0644"]
  /\ backupDir = "absent"
  /\ artifacts = EmptyMap
  /\ registry = EmptyMap
  /\ fixedFiles = {}
  /\ options \in [dryRun : {FALSE}, createTimestampedBackups : BOOLEAN]
  /\ rules \in RuleSets
  /\ findings = <<>>
  /\ now = 1
  /\ steps = 0
  /\ pre = [files |-> files, mode |-> mode, fresh |-> TRUE]
  /\ result = [op |-> "none"]
  /\ compiledRules = EngineOf(rules).compiledRules
  /\ handler = NewHandler(FALSE)
  /\ race = NoRace
  /\ calls = NoCalls

NextReadOnly ==
  \/ Scan
  \/ \E callOpt \in CallOptions : \E ticks \in TickChoices(callOpt) :
        ApplyFixes(callOpt, ticks)
  \/ \E p \in Paths, tick \in BOOLEAN : CreateBackup(p, tick)
  \/ \E old \in SUBSET DOMAIN artifacts : CleanupOldBackups(old)

SpecReadOnly == InitReadOnly /\ [][NextReadOnly]_vars

----------------------------------------------------------------------------
(* Rule engine sessions: one RuleEngine loads rules files and scans files *)

\* A file in which the pattern a matches more often than the cap, and b once.
ManyMatches == [i \in 1..(maxIterations + 1) |-> "a"] \o <<"b">>

\* The contents of src/a.js: over the cap, two rules on one line, a match at
\* the start of the third line.
ScanContents == {ManyMatches, <<"a", "b">>, <<"\n", "\n", "a">>}

\* The contents of lib/a.js.
OtherScanContents == {<<"a", "b", "a">>, <<"b", "\n", "a">>}

RuleA == RawRule("a-to-b", "a-to-b", <<"a">>, "warning", Str(<<"b">>))
RuleB == RawRule("b-detect", "b-detect", <<"b">>, "info", None)
BadPattern == RawRule("open-group", "open-group", <<"(">>, "error", None)
NoName == RawRule("no-name", "", <<"a">>, "warning", None)
BadSeverity == RawRule("bad-severity", "bad-severity", <<"a">>, "fatal", None)
BadReplacement == RawRule("bad-replacement", "bad-replacement", <<"a">>, "info", NotAString)

RuleLists ==
  { <<RuleA, RuleB>>, <<RuleB, RuleA>>, <<BadPattern, RuleA>>, <<RuleA, BadPattern, RuleB>>,
    <<NoName, RuleA>>, <<RuleA, BadSeverity>>, <<RuleA, BadReplacement, RuleB>> }

\* A rules file: unparseable, without a rules array, or with a list of rules.
Documents ==
  { [parses |-> FALSE, hasRules |-> FALSE, rules |-> <<>>],
    [parses |-> TRUE, hasRules |-> FALSE, rules |-> <<>>] }
  \cup {[parses |-> TRUE, hasRules |-> TRUE, rules |-> l] : l \in RuleLists}

\* What reading the two files gives in one analyzeFiles pass.
ScanOutcomes == [Paths -> {"ok", "EACCES", "ENOENT", "ENOSPC"}]

InitEngine ==
  /\ files \in {f \in [Paths -> ScanContents \cup OtherScanContents] :
                  f[P1] \in ScanContents /\ f[P2] \in OtherScanContents}
  /\ mode = [p \in Paths |-> "0644"]
  /\ backupDir = "absent"
  /\ artifacts = EmptyMap
  /\ registry = EmptyMap
  /\ fixedFiles = {}
  /\ options = [dryRun |-> FALSE, createTimestampedBackups |-> TRUE]
  /\ rules = <<>>
  /\ findings = <<>>
  /\ now = 1
  /\ steps = 0
  /\ pre = [files |-> files, mode |-> mode, fresh |-> TRUE]
  /\ result = [op |-> "none"]
  /\ compiledRules = EmptyMap
  /\ handler \in {NewHandler(TRUE), NewHandler(FALSE)}
  /\ race = NoRace
  /\ calls = NoCalls

TheEngine == Engine(rules, compiledRules, handler)

SetEngine(e) ==
  /\ rules' = e.rules
  /\ compiledRules' = e.compiledRules
  /\ handler' = e.handler

\* RuleEngine.loadRules() on the rules file doc.
LoadRules(doc) ==
  /\ Step
  /\ LET r == loadRules(TheEngine, doc)
     IN /\ SetEngine(r.e)
        /\ result' = [op |-> "loadRules", doc |-> doc, thrown |-> r.thrown,
                      handled |-> r.handled]
  /\ UNCHANGED <<files, findings, race, calls>>
  /\ UNCHANGED fixerVars

\* RuleEngine.applyRules(content of p, p, extension of p).
ApplyRules(p) ==
  /\ Step
  /\ LET r == applyRules(TheEngine, p, files[p])
     IN /\ SetEngine(r.e)
        /\ findings' = r.findings
        /\ result' = [op |-> "applyRules", path |-> p, handled |-> r.handled,
                      lastIndexBefore |-> compiledRules]
  /\ UNCHANGED <<files, race, calls>>
  /\ UNCHANGED fixerVars

\* CodeMigrationCLI.analyzeFiles over the two files; outcomes tells what
\* reading each file gives.
AnalyzeFiles(outcomes) ==
  /\ Step
  /\ LET r == analyzeFiles(TheEngine, files, outcomes)
     IN /\ SetEngine(r.e)
        /\ findings' = r.findings
        /\ result' = [op |-> "analyzeFiles", outcomes |-> outcomes,
                      filesProcessed |-> r.filesProcessed, errors |-> r.errors,
                      thrown |-> r.thrown, handled |-> r.handled]
  /\ UNCHANGED <<files, race, calls>>
  /\ UNCHANGED fixerVars

NextEngine ==
  \/ \E doc \in Documents : LoadRules(doc)
  \/ \E p \in Paths : ApplyRules(p)
  \/ \E outcomes \in ScanOutcomes : AnalyzeFiles(outcomes)

SpecEngine == InitEngine /\ [][NextEngine]_vars

\* Rules files outside the usual ones: a rule that lists its file type in upper
\* case, and a rule that has the id of another rule.
RuleShared == RawRule("a-to-b", "b-as-a", <<"b">>, "info", None)

RuleUpper ==
  [RawRule("upper-b", "upper-b", <<"b">>, "info", None) EXCEPT !.fileTypes = {"JS"}]

UnusualRuleLists ==
  { <<RuleUpper, RuleA>>, <<RuleA, RuleUpper>>, <<RuleA, RuleShared>>, <<RuleShared, RuleA>> }

UnusualDocuments ==
  {[parses |-> TRUE, hasRules |-> TRUE, rules |-> l] : l \in UnusualRuleLists}

\* Rule engine sessions on such rules files.
NextRules ==
  \/ \E doc \in UnusualDocuments : LoadRules(doc)
  \/ \E p \in Paths : ApplyRules(p)

SpecRules == InitEngine /\ [][NextRules]_vars

----------------------------------------------------------------------------
(* Error handler sessions: errors are classified on one ErrorHandler *)

InitHandler ==
  /\ InitEngine
  /\ files = [p \in Paths |-> IF p = P1 THEN <<"a", "b">> ELSE <<"a", "b", "a">>]
  /\ handler = NewHandler(TRUE)

\* Fewer than MaxErrors errors have been classified so far.
CanClassify ==
  handler.errorCounts["permission"] + handler.errorCounts["encoding"]
    + handler.errorCounts["filesystem"] < MaxErrors

HandlePermissionError ==
  /\ CanClassify
  /\ handler' = handlePermissionError(handler).h
  /\ result' = [op |-> "handle", handled |-> <<handlePermissionError(handler).result>>]
  /\ UNCHANGED <<files, rules, findings, steps, compiledRules, race, calls>>
  /\ UNCHANGED fixerVars

HandleEncodingError ==
  /\ CanClassify
  /\ handler' = handleEncodingError(handler).h
  /\ result' = [op |-> "handle", handled |-> <<handleEncodingError(handler).result>>]
  /\ UNCHANGED <<files, rules, findings, steps, compiledRules, race, calls>>
  /\ UNCHANGED fixerVars

HandleFilesystemError(code) ==
  /\ CanClassify
  /\ handler' = handleFilesystemError(handler, code).h
  /\ result' = [op |-> "handle", handled |-> <<handleFilesystemError(handler, code).result>>]
  /\ UNCHANGED <<files, rules, findings, steps, compiledRules, race, calls>>
  /\ UNCHANGED fixerVars

NextHandler ==
  \/ HandlePermissionError
  \/ HandleEncodingError
  \/ \E code \in {"ENOENT", "ENOSPC"} : HandleFilesystemError(code)

SpecHandler == InitHandler /\ [][NextHandler]_vars

----------------------------------------------------------------------------
(* Timeout wrapper: ErrorHandler.withTimeout races an operation against a timer *)

Results == {"success", "done"}

Errors == {"Operation failed", "Too many regex matches"}

Timeouts == {100, 1000}

TimeoutMessage(ms) ==
  IF ms = 100 THEN "Operation timed out after 100ms" ELSE "Operation timed out after 1000ms"

\* What operation() does when withTimeout calls it: it throws, or it returns a
\* value or a promise that is fulfilled, rejected or still pending.
Operations ==
  {[does |-> "throws", value |-> e] : e \in Errors}
  \cup {[does |-> "fulfilled", value |-> v] : v \in Results}
  \cup {[does |-> "rejected", value |-> e] : e \in Errors}
  \cup {[does |-> "pending", value |-> "none"]}

Pending == [state |-> "pending", value |-> "none"]

NoEvent == [event |-> "none", state |-> "none", value |-> "none"]

\* Variant of settle that settles a settled promise again.
settle_overwrite(promise, state, value) == [state |-> state, value |-> value]

\* resolve(value) / reject(error) of the promise withTimeout returns: only the
\* first call settles it.
settle(promise, state, value) ==
  IF promise.state = "pending" THEN [state |-> state, value |-> value] ELSE promise

clearTimeout(timer) == IF timer = "armed" THEN "cleared" ELSE timer

\* The first of the two events of the race, once there is one.
FirstEvent(first, event, state, value) ==
  IF first = NoEvent THEN [event |-> event, state |-> state, value |-> value] ELSE first

\* The executor of withTimeout: the timer is armed, operation() is called; a
\* throw of operation() rejects the promise and leaves the timer armed, a
\* settled outcome has its then-reaction queued as a microtask.
withTimeout(op, ms) ==
  [phase |-> "called",
   timeoutMs |-> ms,
   timer |-> "armed",
   operation |-> IF op.does = "throws" THEN [state |-> "threw", value |-> op.value]
                 ELSE IF op.does = "pending" THEN Pending
                 ELSE [state |-> op.does, value |-> op.value],
   jobs |-> IF op.does \in {"fulfilled", "rejected"} THEN <<"then">> ELSE <<>>,
   outer |-> IF op.does = "throws" THEN settle(Pending, "rejected", op.value) ELSE Pending,
   first |-> IF op.does = "throws" THEN FirstEvent(NoEvent, "operation", "rejected", op.value)
             ELSE IF op.does = "fulfilled"
             THEN FirstEvent(NoEvent, "operation", "resolved", op.value)
             ELSE IF op.does = "rejected"
             THEN FirstEvent(NoEvent, "operation", "rejected", op.value)
             ELSE NoEvent]

\* The reaction .then(result => ...): with a fulfilled operation the timer is
\* cleared and the promise resolved; a rejection passes on to .catch.
thenReaction(r) ==
  IF r.operation.state = "fulfilled"
  THEN [r EXCEPT !.jobs = Tail(@),
                 !.timer = clearTimeout(@),
                 !.outer = settle(@, "resolved", r.operation.value)]
  ELSE [r EXCEPT !.jobs = Tail(@) \o <<"catch">>]

\* The reaction .catch(error => ...)
catchReaction(r) ==
  [r EXCEPT !.jobs = Tail(@),
            !.timer = clearTimeout(@),
            !.outer = settle(@, "rejected", r.operation.value)]

\* The callback of setTimeout
timerCallback(r) ==
  [r EXCEPT !.timer = "fired",
            !.outer = settle(@, "rejected", TimeoutMessage(r.timeoutMs)),
            !.first = FirstEvent(@, "timer", "rejected", TimeoutMessage(r.timeoutMs))]

InitTimeout == InitHandler

\* The call before, if any, has nothing left to run.
Quiescent ==
  IF race.phase = "idle" THEN TRUE
  ELSE race.outer.state # "pending" /\ race.jobs = <<>> /\ race.timer # "armed"

WithTimeout(op, ms) ==
  /\ Step
  /\ Quiescent
  /\ race' = withTimeout(op, ms)
  /\ result' = [op |-> "withTimeout", operation |-> op]
  /\ UNCHANGED <<files, rules, findings, compiledRules, handler, calls>>
  /\ UNCHANGED fixerVars

\* The promise operation() returned is fulfilled or rejected.
OperationSettles(state, value) ==
  /\ race.phase = "called"
  /\ race.operation.state = "pending"
  /\ race' = [race EXCEPT !.operation = [state |-> state, value |-> value],
                          !.jobs = Append(@, "then"),
                          !.first = FirstEvent(@, "operation",
                                               IF state = "fulfilled" THEN "resolved"
                                               ELSE "rejected", value)]
  /\ UNCHANGED <<files, rules, findings, steps, result, compiledRules, handler, calls>>
  /\ UNCHANGED fixerVars

\* The next microtask runs.
RunMicrotask ==
  /\ race.phase = "called"
  /\ race.jobs # <<>>
  /\ race' = IF Head(race.jobs) = "then" THEN thenReaction(race) ELSE catchReaction(race)
  /\ UNCHANGED <<files, rules, findings, steps, result, compiledRules, handler, calls>>
  /\ UNCHANGED fixerVars

\* The timer fires: a macrotask, which runs when no microtask is left.
TimerFires ==
  /\ race.phase = "called"
  /\ race.timer = "armed"
  /\ race.jobs = <<>>
  /\ race' = timerCallback(race)
  /\ UNCHANGED <<files, rules, findings, steps, result, compiledRules, handler, calls>>
  /\ UNCHANGED fixerVars

NextTimeout ==
  \/ \E op \in Operations, ms \in Timeouts : WithTimeout(op, ms)
  \/ \E v \in Results : OperationSettles("fulfilled", v)
  \/ \E e \in Errors : OperationSettles("rejected", e)
  \/ RunMicrotask
  \/ TimerFires

SpecTimeout == InitTimeout /\ [][NextTimeout]_vars

----------------------------------------------------------------------------
(* applyRules step by step: the exec loop of one rule, calls for several files *)

\* The scan of one rule by one call: the iterations made and the findings
\* collected so far. The cursor is the lastIndex of the shared compiled pattern.
NoScan == [phase |-> "idle", iterations |-> 0, found |-> <<>>]

NewScan == [phase |-> "running", iterations |-> 0, found |-> <<>>]

\* An applyRules call that has just been made: no rule reached yet; joined
\* tells whether another call was in the middle of its rules at that time.
NewCall(joined) ==
  [phase |-> "active", k |-> 1, findings |-> <<>>, handled |-> <<>>, scan |-> NoScan,
   joined |-> joined]

\* compiledPattern.exec(content): the position (1-based) of the leftmost match
\* at or after lastIndex, 0 for null.
exec(pattern, content, lastIndex) ==
  IF lastIndex > Len(content) THEN 0
  ELSE FirstMatchFrom(pattern, content, lastIndex + 1)

\* Variant of advance that leaves the cursor after a zero-width match.
advance_stuck(lastIndex, n) == lastIndex

\* if (match[0].length === 0) compiledPattern.lastIndex++
advance(lastIndex, n) == IF n = 0 THEN lastIndex + 1 ELSE lastIndex

\* The body of the while loop for the match of length n at position j.
matched(rule, path, content, j, n, sc) ==
  IF sc.iterations + 1 > maxIterations
  THEN [scan |-> [sc EXCEPT !.phase = "rejected", !.iterations = @ + 1],
        lastIndex |-> j - 1 + n]
  ELSE [scan |-> [sc EXCEPT !.iterations = @ + 1,
                            !.found = Append(@, Finding(rule, path, content, j, n))],
        lastIndex |-> advance(j - 1 + n, n)]

\* The loop condition for the position j that exec returned, and the body.
iterate(source, rule, path, content, j, sc) ==
  IF j = 0 THEN [scan |-> [sc EXCEPT !.phase = "resolved"], lastIndex |-> 0]
  ELSE matched(rule, path, content, j, MatchLen(source, content, j), sc)

\* One iteration of the while loop of applyRuleWithTimeout.
iteration(source, rule, path, content, lastIndex, sc) ==
  iterate(source, rule, path, content, exec(source, content, lastIndex), sc)

\* Variant of scanSlice that gives way to other calls after each iteration.
scanSlice_oneMatch(source, rule, path, content, it) ==
  iteration(source, rule, path, content, it.lastIndex, it.scan)

\* What a call runs without giving way to another call: the loop is
\* synchronous, so it is the whole scan of the rule.
RECURSIVE scanSlice(_, _, _, _, _)
scanSlice(source, rule, path, content, it) ==
  IF it.scan.phase # "running" THEN it
  ELSE scanSlice(source, rule, path, content,
                 iteration(source, rule, path, content, it.lastIndex, it.scan))

\* What applyRuleWithTimeout gives for a scan that has ended.
ScanResult(it) ==
  [ok |-> it.scan.phase = "resolved",
   findings |-> IF it.scan.phase = "resolved" THEN it.scan.found ELSE <<>>,
   lastIndex |-> it.lastIndex,
   error |-> IF it.scan.phase = "resolved" THEN "none" ELSE "Too many regex matches"]

\* The call after the try/catch of applyRules left st.
nextRule(call, st) ==
  [e |-> st.e,
   call |-> [call EXCEPT !.k = @ + 1, !.scan = NoScan,
                         !.findings = st.findings, !.handled = st.handled]]

\* The engine e and the call after the slice it of the scan of the rule id.
afterSlice(e, call, id, it) ==
  IF it.scan.phase = "running"
  THEN [e |-> [e EXCEPT !.compiledRules[id].lastIndex = it.lastIndex],
        call |-> [call EXCEPT !.scan = it.scan]]
  ELSE nextRule(call, afterRule([e |-> e, findings |-> call.findings,
                                 handled |-> call.handled], id, ScanResult(it)))

\* The rule the call has reached does not take part in the scan of path.
Skipped(e, call, path) ==
  \/ path.ext \notin e.rules[call.k].fileTypes
  \/ e.rules[call.k].id \notin DOMAIN e.compiledRules

\* The scan the call enters: a new scan of the rule from lastIndex 0, or the
\* scan it was in when it gave way.
enter(e, call) ==
  IF call.scan.phase = "running"
  THEN [scan |-> call.scan, lastIndex |-> e.compiledRules[e.rules[call.k].id].lastIndex]
  ELSE [scan |-> NewScan,
        lastIndex |-> resetLastIndex(e.compiledRules,
                                     e.rules[call.k].id)[e.rules[call.k].id].lastIndex]

\* One turn of a call of applyRules for path: the next rule of the loop.
runRule(e, call, path, content) ==
  IF Skipped(e, call, path)
  THEN [e |-> e, call |-> [call EXCEPT !.k = @ + 1]]
  ELSE afterSlice(e, call, e.rules[call.k].id,
                  scanSlice(e.compiledRules[e.rules[call.k].id].source,
                            e.rules[call.k], path, content, enter(e, call)))

RuleLineStart == RawRule("line-start", "line-start", LineStart, "info", None)

LoadedRules == <<RuleA, RuleLineStart, RuleB>>

\* The engine of these sessions: a RuleEngine with an error handler that has
\* loaded three rules, one of them with zero-width matches.
Loaded ==
  loadRules(Engine(<<>>, EmptyMap, NewHandler(TRUE)),
            [parses |-> TRUE, hasRules |-> TRUE, rules |-> LoadedRules]).e

InitCalls ==
  /\ files \in {f \in [Paths -> ScanContents \cup OtherScanContents] :
                  f[P1] \in ScanContents /\ f[P2] \in OtherScanContents}
  /\ mode = [p \in Paths |-> "0644"]
  /\ backupDir = "absent"
  /\ artifacts = EmptyMap
  /\ registry = EmptyMap
  /\ fixedFiles = {}
  /\ options = [dryRun |-> FALSE, createTimestampedBackups |-> TRUE]
  /\ rules = Loaded.rules
  /\ findings = <<>>
  /\ now = 1
  /\ steps = 0
  /\ pre = [files |-> files, mode |-> mode, fresh |-> TRUE]
  /\ result = [op |-> "none"]
  /\ compiledRules = Loaded.compiledRules
  /\ handler = Loaded.handler
  /\ race = NoRace
  /\ calls = NoCalls

\* The call for p and the engine become what r says.
SetCall(p, r) ==
  /\ SetEngine(r.e)
  /\ calls' = [calls EXCEPT ![p] = r.call]

\* Another call has scanned some of its rules and has some left.
Midway ==
  \E q \in DOMAIN calls :
    calls[q].phase = "active" /\ calls[q].k > 1 /\ calls[q].k <= Len(rules)

\* applyRules is called for the file p.
Begin(p) ==
  /\ Step
  /\ p \in DOMAIN calls => calls[p].phase = "done"
  /\ calls' = Put(calls, p, NewCall(Midway))
  /\ UNCHANGED <<files, rules, findings, result, compiledRules, handler, race>>
  /\ UNCHANGED fixerVars

\* No call is under way.
NoneActive == \A q \in DOMAIN calls : calls[q].phase = "done"

\* applyRules is called for the file p while no other call is under way.
BeginAlone(p) ==
  /\ NoneActive
  /\ Step
  /\ calls' = Put(calls, p, NewCall(FALSE))
  /\ UNCHANGED <<files, rules, findings, result, compiledRules, handler, race>>
  /\ UNCHANGED fixerVars

\* The call for p can take its next turn.
Active(p) ==
  IF p \in DOMAIN calls
  THEN calls[p].phase = "active" /\ calls[p].k <= Len(rules)
  ELSE FALSE

\* The head of the for loop of applyRules: the rule is skipped, or its cursor
\* is reset and its scan begins.
EnterRule(p) ==
  /\ Active(p)
  /\ calls[p].scan.phase = "idle"
  /\ IF Skipped(TheEngine, calls[p], p)
     THEN /\ calls' = [calls EXCEPT ![p].k = @ + 1]
          /\ UNCHANGED compiledRules
     ELSE /\ calls' = [calls EXCEPT ![p].scan = NewScan]
          /\ compiledRules' = resetLastIndex(compiledRules, rules[calls[p].k].id)
  /\ UNCHANGED <<files, rules, findings, steps, result, handler, race>>
  /\ UNCHANGED fixerVars

\* One iteration of the while loop of the scan the call for p is in.
ExecIteration(p) ==
  /\ Active(p)
  /\ calls[p].scan.phase = "running"
  /\ SetCall(p, afterSlice(TheEngine, calls[p], rules[calls[p].k].id,
                           iteration(compiledRules[rules[calls[p].k].id].source,
                                     rules[calls[p].k], p, files[p],
                                     compiledRules[rules[calls[p].k].id].lastIndex,
                                     calls[p].scan)))
  /\ UNCHANGED <<files, findings, steps, result, race>>
  /\ UNCHANGED fixerVars

\* One turn of the call for p between two awaits: the next rule of the loop.
RunRule(p) ==
  /\ Active(p)
  /\ SetCall(p, runRule(TheEngine, calls[p], p, files[p]))
  /\ UNCHANGED <<files, findings, steps, result, race>>
  /\ UNCHANGED fixerVars

\* The for loop of the call for p is over: applyRules returns its findings.
Return(p) ==
  /\ p \in DOMAIN calls
  /\ calls[p].phase = "active"
  /\ calls[p].k > Len(rules)
  /\ calls' = [calls EXCEPT ![p].phase = "done"]
  /\ findings' = calls[p].findings
  /\ result' = [op |-> "return", path |-> p, handled |-> calls[p].handled]
  /\ UNCHANGED <<files, rules, steps, compiledRules, handler, race>>
  /\ UNCHANGED fixerVars

\* One call at a time, followed iteration by iteration.
NextScan ==
  \/ \E p \in Paths : BeginAlone(p)
  \/ \E p \in Paths : EnterRule(p)
  \/ \E p \in Paths : ExecIteration(p)
  \/ \E p \in Paths : Return(p)

\* The loop is synchronous: nothing keeps an iteration from running.
SpecScan ==
  InitCalls /\ [][NextScan]_vars /\ WF_vars(\E p \in Paths : ExecIteration(p))

\* Calls for several files at a time, taking turns at their awaits.
NextConcurrent ==
  \/ \E p \in Paths : Begin(p)
  \/ \E p \in Paths : RunRule(p)
  \/ \E p \in Paths : Return(p)

SpecConcurrent == InitCalls /\ [][NextConcurrent]_vars

----------------------------------------------------------------------------
(* Properties *)

ApplyStep == steps' = steps + 1 /\ result'.op = "applyFixes"

BackupStep == steps' = steps + 1 /\ result'.op = "createBackup"

RollbackStep == steps' = steps + 1 /\ result'.op = "rollbackChanges"

Range(seq) == {seq[i] : i \in 1..Len(seq)}

\* C1: applyFixes (no dry run, backupBeforeFix) on a fresh Fixer followed by
\* rollbackChanges leaves every file the call backed up or wrote with the
\* content and the permission bits it had before applyFixes.
C1_RoundTrip ==
  [][(/\ result.op = "applyFixes"
      /\ pre.fresh
      /\ ~options.dryRun
      /\ result.callOpt.backupBeforeFix
      /\ RollbackStep)
     => \A p \in result.res.writes \cup Range(result.res.backedUp) :
          /\ files'[p] = pre.files[p]
          /\ mode'[p] = pre.mode[p]]_vars

\* C2: first backup wins. A createBackup or applyFixes call leaves every path
\* that is already in the registry mapped to the same artifact, copies nothing
\* over that artifact, and a repeated createBackup returns that artifact.
C2_FirstBackupWins ==
  [][(BackupStep \/ ApplyStep)
     => /\ \A p \in DOMAIN registry \cap DOMAIN registry' :
             /\ registry'[p] = registry[p]
             /\ registry[p] \in DOMAIN artifacts
                  => /\ registry[p] \in DOMAIN artifacts'
                     /\ artifacts'[registry[p]] = artifacts[registry[p]]
        /\ (BackupStep /\ result'.ok /\ result'.path \in DOMAIN registry)
             => result'.name = registry[result'.path]]_vars

\* The files of a list of findings, and the rules named by the findings of a file.
FilesOf(fs) == {fs[i].filePath : i \in 1..Len(fs)}

RuleIdsOf(fs, p) == {fs[i].ruleId : i \in {k \in 1..Len(fs) : fs[k].filePath = p}}

RuleById(id) == rules[CHOOSE k \in 1..Len(rules) : rules[k].id = id]

GlobalPass(content, rule) == ReplaceAll(content, rule.pattern, rule.replacement.text)

\* The number of matches one global pass of pattern substitutes in content.
RECURSIVE CountFrom(_, _, _)
CountFrom(content, pattern, i) ==
  LET j == FirstMatchFrom(pattern, content, i)
  IN IF j = 0 THEN 0
     ELSE LET n == MatchLen(pattern, content, j)
          IN 1 + CountFrom(content, pattern, IF n = 0 THEN j + 1 ELSE j + n)

CountMatches(content, pattern) == CountFrom(content, pattern, 1)

\* The contents that one global pass per rule of ids can give, in any order.
RECURSIVE OnePassResults(_, _)
OnePassResults(content, ids) ==
  IF ids = {} THEN {content}
  ELSE UNION {OnePassResults(GlobalPass(content, RuleById(id)), ids \ {id}) : id \in ids}

\* One global pass per rule of ids, in rule load order, from rule k on.
RECURSIVE InLoadOrder(_, _, _)
InLoadOrder(content, ids, k) ==
  IF k > Len(rules) THEN content
  ELSE InLoadOrder(IF rules[k].id \in ids THEN GlobalPass(content, rules[k]) ELSE content,
                   ids, k + 1)

\* The matches substituted by those passes.
RECURSIVE CountInLoadOrder(_, _, _)
CountInLoadOrder(content, ids, k) ==
  IF k > Len(rules) THEN 0
  ELSE IF rules[k].id \in ids
       THEN CountMatches(content, rules[k].pattern)
              + CountInLoadOrder(GlobalPass(content, rules[k]), ids, k + 1)
       ELSE CountInLoadOrder(content, ids, k + 1)

\* ... summed over the files of S, with the findings fs and the contents fl.
RECURSIVE ExpectedCount(_, _, _)
ExpectedCount(S, fs, fl) ==
  IF S = {} THEN 0
  ELSE LET p == CHOOSE q \in S : TRUE
       IN CountInLoadOrder(fl[p], RuleIdsOf(fs, p), 1) + ExpectedCount(S \ {p}, fs, fl)

SelfMatching(rule) ==
  ~rule.replacement.null /\ FirstMatchFrom(rule.pattern, rule.replacement.text, 1) # 0

\* C3: after an applyFixes call without errors, the content of every file with
\* fixable findings is what one global pass per distinct rule of its findings
\* gives (in some order of the rules), however many findings each rule has.
C3_OncePerRule ==
  [][(ApplyStep /\ ~options.dryRun /\ result'.res.errors = <<>>)
     => \A p \in FilesOf(fixableOf(findings)) :
          files'[p] \in OnePassResults(files[p], RuleIdsOf(fixableOf(findings), p))]_vars

\* C4: an applyFixes call without errors reports patternsReplaced equal to the
\* number of matches substituted, summed over the files and over the distinct
\* rules of each file's findings, in a dry run as in a real run.
C4_CountsMatches ==
  [][(ApplyStep /\ result'.res.errors = <<>>)
     => result'.res.patternsReplaced
          = ExpectedCount(FilesOf(fixableOf(findings)), fixableOf(findings), files)]_vars

\* C5: after an applyFixes call without errors, the content of every file with
\* fixable findings (of rules whose replacement does not match their own
\* pattern) is the composition of the rules' global passes in rule load order.
C5_LoadOrder ==
  [][(ApplyStep /\ ~options.dryRun /\ result'.res.errors = <<>>)
     => \A p \in FilesOf(fixableOf(findings)) :
          (\A id \in RuleIdsOf(fixableOf(findings), p) : ~SelfMatching(RuleById(id)))
            => files'[p] = InLoadOrder(files[p], RuleIdsOf(fixableOf(findings), p), 1)]_vars

\* C6: a finding is fixable exactly when its rule's replacement is not null,
\* and applyFixes given only findings that are not fixable changes no file, no
\* backup, no registry entry, reads nothing and returns all counts 0.
C6_NonFixable ==
  [][/\ \A i \in 1..Len(findings') :
          findings'[i].fixable = ~RuleById(findings'[i].ruleId).replacement.null
     /\ (ApplyStep /\ \A i \in 1..Len(findings) : ~findings[i].fixable)
          => /\ UNCHANGED <<files, mode, backupDir, artifacts, registry, fixedFiles>>
             /\ result'.res.filesProcessed = 0
             /\ result'.res.filesFixed = 0
             /\ result'.res.patternsReplaced = 0
             /\ result'.res.reads = {}
             /\ result'.res.writes = {}
             /\ result'.res.backedUp = <<>>]_vars

C6_Witness ==
  /\ result.op = "applyFixes"
  /\ result.nGiven > 0
  /\ result.nFixable = 0
  /\ Len(findings) = result.nGiven
  /\ \A i \in 1..Len(findings) : ~findings[i].fixable /\ findings[i].replacement.null

\* C7: an applyFixes call on a Fixer constructed with dryRun changes no file
\* content or mode, no backup artifact, not the backup directory and not the
\* registry, whatever the call options.
C7_DryRunFrame ==
  [][(ApplyStep /\ options.dryRun)
     => UNCHANGED <<files, mode, artifacts, backupDir, registry>>]_vars

C7_Witness ==
  /\ result.op = "applyFixes"
  /\ options.dryRun
  /\ result.callOpt.backupBeforeFix
  /\ result.res.patternsReplaced > 0

\* C8: with continueOnError, applyFixes does not throw; the failing files are
\* once each in errors and not among the fixed files; files that cannot be read
\* or backed up are among them and a read-only file not among them is left
\* alone; every other file, and the counts, are as in a call on the findings
\* of the other files only.
C8_ContinueOnError ==
  [][(ApplyStep /\ result'.callOpt.continueOnError)
     => LET res == result'.res
            E == Range(res.errors)
            fixable == fixableOf(findings)
            doBackup == result'.callOpt.backupBeforeFix /\ ~options.dryRun
            alone == applyFixes(World, SelectSeq(findings, LAMBDA f : f.filePath \notin E),
                                options, result'.callOpt, {})
        IN /\ ~res.thrown
           /\ Cardinality(E) = Len(res.errors)
           /\ E \cap Range(res.fixedFiles) = {}
           /\ res.filesFixed = Len(res.fixedFiles)
           /\ \A p \in FilesOf(fixable) :
                /\ (mode[p] = "0000" \/ (doBackup /\ backupDir = "readonly")) => p \in E
                /\ (mode[p] = "0444" /\ p \notin E) => files'[p] = files[p]
           /\ alone.res.errors = <<>>
           /\ \A p \in Paths \ E : files'[p] = alone.w.files[p]
           /\ res.fixedFiles = alone.res.fixedFiles
           /\ res.filesFixed = alone.res.filesFixed
           /\ res.patternsReplaced = alone.res.patternsReplaced]_vars

C8_Witness ==
  /\ result.op = "applyFixes"
  /\ result.callOpt.continueOnError
  /\ ~options.dryRun
  /\ Len(result.res.errors) = 1
  /\ result.res.filesFixed = 1
  /\ result.res.writes # {}

\* C9: with continueOnError off and backupBeforeFix on, the first failing file
\* makes applyFixes throw, no file after it is backed up, read or written, and
\* every file backed up in the call has its content of before the call.
C9_AbortRestores ==
  [][(/\ ApplyStep
      /\ ~result'.callOpt.continueOnError
      /\ result'.callOpt.backupBeforeFix
      /\ ~options.dryRun
      /\ result'.res.errors # <<>>)
     => LET res == result'.res
            order == fileOrder(fixableOf(findings))
            k == CHOOSE i \in 1..Len(order) : order[i] = res.errors[1]
        IN /\ res.thrown
           /\ Len(res.errors) = 1
           /\ \A j \in (k + 1)..Len(order) :
                order[j] \notin res.reads \cup res.writes \cup Range(res.backedUp)
           /\ \A p \in Range(res.backedUp) : files'[p] = files[p]]_vars

\* C10: rollbackChanges overwrites every registered path whose artifact exists
\* with the artifact's content and mode, leaves the other files alone, counts
\* both, and empties the registry and the fixed-files set even when a restore
\* failed; a rollbackChanges right after a rollbackChanges restores 0 files
\* and changes no file.
C10_RollbackClears ==
  [][RollbackStep
     => LET ok == {p \in DOMAIN registry : registry[p] \in DOMAIN artifacts}
        IN /\ registry' = EmptyMap
           /\ fixedFiles' = {}
           /\ \A p \in ok : /\ files'[p] = artifacts[registry[p]].content
                            /\ mode'[p] = artifacts[registry[p]].mode
           /\ \A p \in Paths \ ok : files'[p] = files[p] /\ mode'[p] = mode[p]
           /\ result'.res.filesRestored = Cardinality(ok)
           /\ Len(result'.res.errors) = Cardinality(DOMAIN registry \ ok)
           /\ result.op = "rollbackChanges"
                => /\ result'.res.filesRestored = 0
                   /\ files' = files
                   /\ mode' = mode]_vars

C10_Witness ==
  /\ result.op = "rollbackChanges"
  /\ result.res.filesRestored > 0
  /\ Len(result.res.errors) > 0
  /\ registry = EmptyMap
  /\ fixedFiles = {}

RestoreStep == steps' = steps + 1 /\ result'.op = "restoreFromBackup"

ApplyRulesStep == steps' = steps + 1 /\ result'.op = "applyRules"

\* The place of the rule id in the load order rs.
RuleIndex(rs, id) == CHOOSE k \in 1..Len(rs) : rs[k].id = id

\* Finding a lies before finding b in the document.
Before(a, b) ==
  \/ a.lineNumber < b.lineNumber
  \/ a.lineNumber = b.lineNumber /\ a.columnNumber < b.columnNumber

\* The findings of the rule id among fs.
FindingsOf(fs, id) == {i \in 1..Len(fs) : fs[i].ruleId = id}

\* The number of findings a scan of content with pattern returns: every match,
\* or none when the matches exceed the cap.
Returned(content, pattern) ==
  IF CountMatches(content, pattern) > maxIterations THEN 0
  ELSE CountMatches(content, pattern)

RECURSIVE OffsetsFrom(_, _, _)
OffsetsFrom(content, pattern, i) ==
  LET j == FirstMatchFrom(pattern, content, i)
  IN IF j = 0 THEN <<>>
     ELSE LET n == MatchLen(pattern, content, j)
          IN <<j - 1>> \o OffsetsFrom(content, pattern, IF n = 0 THEN j + 1 ELSE j + n)

\* The offsets (0-based) of the newline characters before the offset off.
NewlinesBefore(content, off) == {k \in 0..(off - 1) : content[k + 1] = "\n"}

LineAt(content, off) == 1 + Cardinality(NewlinesBefore(content, off))

ColumnAt(content, off) ==
  IF NewlinesBefore(content, off) = {} THEN off + 1
  ELSE off - (CHOOSE k \in NewlinesBefore(content, off) :
                \A m \in NewlinesBefore(content, off) : m <= k)

\* The findings of the rule id among fs, in the order of fs.
RECURSIVE OfRule(_, _)
OfRule(fs, id) ==
  IF fs = <<>> THEN <<>>
  ELSE (IF Head(fs).ruleId = id THEN <<Head(fs)>> ELSE <<>>) \o OfRule(Tail(fs), id)

\* C13: the n-th finding of a rule has the line 1 + the number of newlines
\* before the offset of the rule's n-th match, and the column that offset minus
\* the offset of the last newline before it (the offset + 1 when there is none).
C13_LineAndColumn ==
  [][ApplyRulesStep
     => \A k \in 1..Len(rules) :
          LET content == files[result'.path]
              offsets == OffsetsFrom(content, rules[k].pattern, 1)
              found == OfRule(findings', rules[k].id)
          IN found # <<>>
               => /\ Len(found) = Len(offsets)
                  /\ \A n \in 1..Len(found) :
                       /\ found[n].lineNumber = LineAt(content, offsets[n])
                       /\ found[n].columnNumber = ColumnAt(content, offsets[n])]_vars

\* C13 witness: applyRules returned a finding for a match at the start of the
\* third line, with line 3 and column 1.
C13_Witness ==
  /\ result.op = "applyRules"
  /\ files[result.path] = <<"\n", "\n", "a">>
  /\ \E i \in 1..Len(findings) :
       /\ findings[i].matchedText = <<"a">>
       /\ findings[i].lineNumber = 3
       /\ findings[i].columnNumber = 1

\* The rules of the engine whose scan of content runs into the match cap.
OverCap(content) ==
  {k \in 1..Len(rules) : /\ rules[k].id \in DOMAIN compiledRules
                         /\ CountMatches(content, rules[k].pattern) > maxIterations}

\* C14: when a rule matches more often than the cap in the file, applyRules of
\* an engine with an error handler returns no finding of that rule and the
\* handler records one recoverable, skipRule error of type timeout for it, and
\* no critical error and no error of type unknown.
C14_CapIsTimeout ==
  [][(ApplyRulesStep /\ handler.present /\ OverCap(files[result'.path]) # {})
     => /\ \A k \in OverCap(files[result'.path]) : FindingsOf(findings', rules[k].id) = {}
        /\ Len(result'.handled) = Cardinality(OverCap(files[result'.path]))
        /\ \A i \in 1..Len(result'.handled) :
             /\ result'.handled[i].type = "timeout"
             /\ result'.handled[i].recoverable
             /\ result'.handled[i].skipRule
             /\ ~result'.handled[i].critical
        /\ handler'.errorCounts["unknown"] = handler.errorCounts["unknown"]]_vars

\* C15: whatever the scans of earlier files left behind, applyRules returns
\* every match of each rule whose scan of this file succeeds, counted from the
\* start of the content, and nothing of a rule whose scan fails.
C15_FailedRuleSkipped ==
  [][ApplyRulesStep
     => \A k \in 1..Len(rules) :
          rules[k].id \in DOMAIN compiledRules
            => LET content == files[result'.path]
                   offsets == OffsetsFrom(content, rules[k].pattern, 1)
                   found == OfRule(findings', rules[k].id)
               IN IF k \in OverCap(content) THEN found = <<>>
                  ELSE /\ Len(found) = Len(offsets)
                       /\ \A n \in 1..Len(found) :
                            found[n].matchedText
                              = SubSeq(content, offsets[n] + 1,
                                       offsets[n] + MatchLen(rules[k].pattern, content,
                                                             offsets[n] + 1))]_vars

\* C15 witness: a rule whose scan of an earlier file had failed, leaving its
\* pattern in the middle of that file, has been applied to the next file and
\* its findings are returned.
C15_Witness ==
  /\ result.op = "applyRules"
  /\ \E k \in 1..Len(rules) :
       /\ rules[k].id \in DOMAIN result.lastIndexBefore
       /\ result.lastIndexBefore[rules[k].id].lastIndex > 0
       /\ OfRule(findings, rules[k].id) # <<>>

\* A loadRules call of a rule engine session has just returned or thrown.
LoadStep == steps' = steps + 1 /\ result'.op = "loadRules"

\* The document of the call has a rules list.
WellFormed(doc) == doc.parses /\ doc.hasRules

\* The ids of the rules rs, in order.
IdsOf(rs) == [k \in 1..Len(rs) |-> rs[k].id]

\* The rules of rs that pass validation / whose pattern compiles.
Valid(rs) == SelectSeq(rs, LAMBDA r : validateRule(r) = "ok")

Compiling(rs) == SelectSeq(rs, LAMBDA r : Compiles(r.pattern))

\* C16: loadRules (of an engine with an error handler) on a list of valid rules
\* of which some pattern does not compile does not throw; afterwards getAllRules
\* and getRulesForFileType give exactly the rules whose pattern compiled, and
\* one non-recoverable regex error is recorded per pattern that did not.
C16_UncompiledExcluded ==
  [][(/\ LoadStep
      /\ handler.present
      /\ WellFormed(result'.doc)
      /\ Valid(result'.doc.rules) = result'.doc.rules
      /\ Compiling(result'.doc.rules) # result'.doc.rules)
     => /\ ~result'.thrown
        /\ IdsOf(getAllRules(Engine(rules', compiledRules', handler')))
             = IdsOf(Compiling(result'.doc.rules))
        /\ IdsOf(getRulesForFileType(Engine(rules', compiledRules', handler'), "js"))
             = IdsOf(Compiling(result'.doc.rules))
        /\ Len(result'.handled)
             = Len(result'.doc.rules) - Len(Compiling(result'.doc.rules))
        /\ \A i \in 1..Len(result'.handled) :
             result'.handled[i].type = "regex" /\ ~result'.handled[i].recoverable]_vars

\* C17: loadRules (of an engine with an error handler) throws exactly when the
\* document is malformed; on a well-formed document every rule that passes
\* validation and compiles is loaded and every rule that fails validation is
\* left out.
C17_InvalidRuleDropped ==
  [][(LoadStep /\ handler.present)
     => /\ result'.thrown = ~WellFormed(result'.doc)
        /\ WellFormed(result'.doc)
             => /\ \A k \in 1..Len(result'.doc.rules) :
                     (validateRule(result'.doc.rules[k]) = "ok"
                        /\ Compiles(result'.doc.rules[k].pattern))
                       => result'.doc.rules[k].id \in DOMAIN compiledRules'
                /\ IdsOf(Valid(rules')) = IdsOf(rules')]_vars

\* An analyzeFiles pass of a rule engine session has just ended.
AnalyzeStep == steps' = steps + 1 /\ result'.op = "analyzeFiles"

\* The places in the file list of the files whose read fails with a code that
\* isFilesystemErrorRecoverable does not accept.
Stopping(outcomes) ==
  {k \in 1..Len(FileList) : /\ outcomes[FileList[k]] # "ok"
                            /\ ~isFilesystemErrorRecoverable(outcomes[FileList[k]])}

\* C18: when the read of a file fails with a non-recoverable code, analyzeFiles
\* stops there and throws: no file after the first such file is scanned or
\* recorded; when every failing read has a recoverable code, the pass skips
\* those files, goes through the whole list and does not throw.
C18_NonRecoverableStops ==
  [][AnalyzeStep
     => IF Stopping(result'.outcomes) = {}
        THEN /\ ~result'.thrown
             /\ result'.filesProcessed + Len(result'.errors) = Len(FileList)
        ELSE /\ result'.thrown
             /\ \A k \in Stopping(result'.outcomes) :
                  result'.filesProcessed + Len(result'.errors) <= k]_vars

\* What the console shows about permission errors, in order.
PermissionMessages ==
  SelectSeq(handler.console,
            LAMBDA m : m \in {"permission-warning", "permission-suppressed"})

\* C19: after n permission errors the counter is n and the console shows
\* min(n, 4) messages about them: a warning for each of the first three, one
\* suppression notice for the fourth, nothing from the fifth on.
C19_WarnThreeTimes ==
  LET n == handler.errorCounts["permission"]
      expected == <<"permission-warning", "permission-warning", "permission-warning",
                    "permission-suppressed">>
  IN PermissionMessages = SubSeq(expected, 1, IF n < 4 THEN n ELSE 4)

\* C19 witness: a fifth permission error has been counted and the console
\* shows four messages about permission errors.
C19_Witness ==
  /\ handler.errorCounts["permission"] = 5
  /\ Len(PermissionMessages) = 4
  /\ result.op = "handle"
  /\ result.handled[1].type = "permission"

\* C20: in every state of a withTimeout call the promise is pending while
\* neither event has happened; when the operation was first it is pending until
\* the reactions have run and then resolved with the operation's result or
\* rejected with the operation's own error; when the timer was first it is
\* rejected with the timeout error; and once settled it never changes again
\* during the call, whatever fires or settles later.
C20_FirstEventWins ==
  [][/\ race'.phase = "called"
          => /\ race'.first.event = "none" => race'.outer = Pending
             /\ race'.first.event = "operation"
                  => race'.outer = IF race'.jobs # <<>> THEN Pending
                                   ELSE [state |-> race'.first.state,
                                         value |-> race'.first.value]
             /\ race'.first.event = "timer"
                  => race'.outer = [state |-> "rejected",
                                    value |-> TimeoutMessage(race'.timeoutMs)]
     /\ (race.phase = "called" /\ steps' = steps /\ race.outer.state # "pending")
          => race'.outer = race.outer]_vars

\* C20 witness: the timer fired first and rejected the promise, then the
\* operation was fulfilled and its reaction has run.
C20_Witness ==
  /\ race.phase = "called"
  /\ race.first.event = "timer"
  /\ race.operation.state = "fulfilled"
  /\ race.jobs = <<>>
  /\ race.outer.state = "rejected"

\* The files of the fixable findings fs in which no pattern of their findings
\* matches any more.
Settled(fs, fl) ==
  {p \in FilesOf(fs) :
     \A i \in 1..Len(fs) :
       fs[i].filePath = p => FirstMatchFrom(fs[i].pattern, fl[p], 1) = 0}

\* C21: an applyFixes call without errors leaves every file unchanged in which
\* the patterns of its findings no longer match, and reports patternsReplaced
\* = 0 when that is so for every file of the findings.
C21_Idempotent ==
  [][(ApplyStep /\ result'.res.errors = <<>>)
     => /\ \A p \in Settled(fixableOf(findings), files) : files'[p] = files[p]
        /\ Settled(fixableOf(findings), files) = FilesOf(fixableOf(findings))
             => /\ result'.res.patternsReplaced = 0
                /\ result'.res.filesFixed = 0
                /\ files' = files]_vars

\* C21 witness: a second applyFixes call with the findings of files an earlier
\* call fixed has gone through them and replaced nothing.
C21_Witness ==
  /\ result.op = "applyFixes"
  /\ ~options.dryRun
  /\ result.nFixable > 0
  /\ result.res.errors = <<>>
  /\ result.res.filesProcessed > 0
  /\ result.res.patternsReplaced = 0
  /\ fixedFiles # {}
  /\ files = pre.files
  /\ Settled(fixableOf(findings), files) = FilesOf(fixableOf(findings))

\* C22: two distinct files never share a backup artifact: the registry maps
\* distinct paths to distinct artifacts.
C22_NoCollision ==
  \A p \in DOMAIN registry : \A q \in DOMAIN registry :
    p # q => registry[p] # registry[q]

\* An applyFixes call that makes backups: backupBeforeFix outside a dry run.
BackingUp == ApplyStep /\ result'.callOpt.backupBeforeFix /\ ~options.dryRun

\* The files of the call whose createBackup failed: processed, not recorded
\* as backed up and never read by fixFile.
BackupFailed(res) ==
  {p \in Range(res.errors) : p \notin Range(res.backedUp) /\ p \notin res.reads}

\* C23: in an applyFixes call that makes backups every file written was
\* backed up in the call first and, when the call returns, the registry leads
\* to an artifact holding the content the file had before the call; a file
\* whose createBackup failed is not modified and has no registry entry.
C23_BackupBeforeWrite ==
  [][BackingUp
     => /\ result'.res.writes \subseteq Range(result'.res.backedUp)
        /\ ~result'.res.thrown
             => \A p \in result'.res.writes :
                  /\ p \in DOMAIN registry'
                  /\ registry'[p] \in DOMAIN artifacts'
                  /\ artifacts'[registry'[p]].content = files[p]
        /\ \A p \in BackupFailed(result'.res) :
             /\ files'[p] = files[p]
             /\ p \notin DOMAIN registry']_vars

\* The content the substitutions of the fixable findings fs give for the file p.
FixedContent(fs, fl, p) ==
  applyEach(sortFindings(groupFindingsByFile(fs, p)), 1, fl[p], 0).content

\* The files whose content the substitutions change.
Changing(fs, fl) == {p \in FilesOf(fs) : FixedContent(fs, fl, p) # fl[p]}

\* C24: after an applyFixes call without errors filesFixed is the number of
\* files whose content the call changed (in a dry run: would change), and
\* exactly those files were written outside a dry run.
C24_FilesFixedCountsChanges ==
  [][(ApplyStep /\ result'.res.errors = <<>>)
     => /\ result'.res.filesFixed = Cardinality(Changing(fixableOf(findings), files))
        /\ ~options.dryRun
             => /\ result'.res.writes = {p \in Paths : files'[p] # files[p]}
                /\ result'.res.writes = Changing(fixableOf(findings), files)]_vars

\* The call for p is in the scan of a rule.
Scanning(p) ==
  IF p \in DOMAIN calls THEN calls[p].scan.phase = "running" ELSE FALSE

\* C25: an iteration of the scan of a rule either ends the scan or strictly
\* advances the cursor, which stays within the content, and leaves at most
\* the cap of iterations made; and every scan that runs ends.
C25_ScanTerminates ==
  /\ [][\A p \in Paths :
          (Scanning(p) /\ calls'[p].scan # calls[p].scan /\ calls'[p].scan.phase = "running")
            => /\ compiledRules'[rules[calls[p].k].id].lastIndex
                    > compiledRules[rules[calls[p].k].id].lastIndex
               /\ compiledRules'[rules[calls[p].k].id].lastIndex <= Len(files[p]) + 1
               /\ calls'[p].scan.iterations = calls[p].scan.iterations + 1
               /\ calls'[p].scan.iterations <= maxIterations]_vars
  /\ \A p \in Paths : Scanning(p) ~> ~Scanning(p)

\* C25 witness: the scan of the rule with zero-width matches has ended after
\* one match at the start of each of two lines.
C25_Witness ==
  \E p \in DOMAIN calls :
    /\ calls[p].k > 2
    /\ calls[p].scan.phase = "idle"
    /\ Len(OfRule(calls[p].findings, "line-start")) = 2
    /\ \A i \in 1..Len(calls[p].findings) :
         calls[p].findings[i].ruleId = "line-start"
           => calls[p].findings[i].matchedText = <<>>

\* The call of applyRules for p returns in this step.
Returns(p) ==
  IF p \in DOMAIN calls
  THEN calls[p].phase = "active" /\ calls'[p].phase = "done"
  ELSE FALSE

\* C27: a call of applyRules that took turns with calls for other files on
\* the same engine returns the findings that applyRules returns for its file
\* when it runs alone.
C27_ConcurrentCallsIndependent ==
  [][\A p \in Paths :
       Returns(p) => findings' = applyRules(TheEngine, p, files[p]).findings]_vars

\* C27 witness: a call began while the call for the other file was in the
\* middle of its rules, scanned and returned; then the other call scanned its
\* remaining rules and returned findings.
C27_Witness ==
  \E p \in DOMAIN calls : \E q \in DOMAIN calls :
    /\ p # q
    /\ calls[p].joined
    /\ calls[p].phase = "done"
    /\ calls[p].findings # <<>>
    /\ calls[q].phase = "done"
    /\ result.op = "return"
    /\ result.path = q
    /\ findings # <<>>

\* The results res of a call with the errors of its rollback left out.
RollbackClean(res) == [res EXCEPT !.rollback = <<[res.rollback[1] EXCEPT !.errors = <<>>]>>]

\* C26: when applyFixes throws after a backup was made in the call, the
\* rollback has run, the caller receives the error of the file that failed,
\* and a rollback that could not restore some file shows in what the caller
\* receives.
C26_RollbackReported ==
  [][(ApplyStep /\ result'.res.thrown /\ result'.res.backupsCreated # <<>>)
     => /\ Len(result'.res.rollback) = 1
        /\ registry' = EmptyMap
        /\ received(result'.res).error
             = [message |-> "Fix operation failed",
                filePath |-> result'.res.errors[Len(result'.res.errors)]]
        /\ result'.res.rollback[1].errors # <<>>
             => received(result'.res) # received(RollbackClean(result'.res))]_vars

\* String.prototype.toLowerCase on the extensions of the model.
toLowerCase(s) == IF s = "JS" THEN "js" ELSE s

\* The rule lists the extension, compared without regard to case.
Lists(rule, ext) == \E t \in rule.fileTypes : toLowerCase(t) = toLowerCase(ext)

\* No other loaded rule has the id of the k-th rule.
OwnId(k) == \A m \in 1..Len(rules) : rules[m].id = rules[k].id => m = k

\* C28: a rule whose fileTypes contains the extension of the file, compared
\* case-insensitively, is applied to the file (when its pattern matches within
\* the cap, applyRules returns findings of it), and applyRules returns findings
\* only of rules whose fileTypes contains the extension in that sense.
C28_FileTypesIgnoreCase ==
  [][ApplyRulesStep
     => /\ \A k \in 1..Len(rules) :
             (/\ Lists(rules[k], result'.path.ext)
              /\ OwnId(k)
              /\ rules[k].id \in DOMAIN compiledRules
              /\ Returned(files[result'.path], rules[k].pattern) > 0)
               => FindingsOf(findings', rules[k].id) # {}
        /\ \A i \in 1..Len(findings') :
             \E k \in 1..Len(rules) :
               /\ rules[k].id = findings'[i].ruleId
               /\ Lists(rules[k], result'.path.ext)]_vars

\* C29: the findings applyRules returns lie in ascending line order, whichever
\* rule produced them.
C29_DocumentOrder ==
  [][ApplyRulesStep
     => \A i, j \in 1..Len(findings') :
          i < j => findings'[i].lineNumber <= findings'[j].lineNumber]_vars

\* The finding f is one of the rule: it has the rule's id and pattern.
Names(f, rule) == f.ruleId = rule.id /\ f.pattern = rule.pattern

\* C30: the matched text of every finding applyRules returns is a match of the
\* pattern the finding carries, which is the pattern of a loaded rule with the
\* finding's id; and every loaded rule that applies to the file has as many
\* findings as its own pattern has matches in the content (none beyond the cap).
C30_OwnPattern ==
  [][ApplyRulesStep
     => /\ \A i \in 1..Len(findings') :
             /\ \E k \in 1..Len(rules) : Names(findings'[i], rules[k])
             /\ MatchLen(findings'[i].pattern, findings'[i].matchedText, 1)
                  = Len(findings'[i].matchedText)
        /\ \A k \in 1..Len(rules) :
             (/\ result'.path.ext \in rules[k].fileTypes
              /\ rules[k].id \in DOMAIN compiledRules)
               => Cardinality({i \in 1..Len(findings') : Names(findings'[i], rules[k])})
                    = Returned(files[result'.path], rules[k].pattern)]_vars

====
